---- MODULE Spec2Model ----
(***************************************************************************)
(* Registration-window lifecycle of the meal-registration bot:             *)
(*   scheduler/index.ts + scheduler/messageScheduler.ts   (Scheduler,      *)
(*        MessageScheduler: in-memory tasks, timers, TaskStore)            *)
(*   services/mealRegistrationService.ts  (open / close processing)        *)
(*   services/stateRecoveryService.ts     (startup recovery)               *)
(*   database/index.ts                    (active_registrations,           *)
(*                                         reaction_data)                  *)
(*   events/reactionEvents.ts             (opt-in / opt-out handlers)      *)
(*                                                                         *)
(* Time is counted in clock units; one action is one synchronous run of    *)
(* the event loop (a handler up to its next await).  Every await on the    *)
(* gateway is a separate action that resolves with a nondeterministic      *)
(* outcome.                                                                *)
(***************************************************************************)
EXTENDS Integers, Sequences, FiniteSets, TLC

\* ---------------------------------------------------------------- bounds
MaxTime == 3
MaxRestarts == 2
MaxMsgs == 2
MaxFailures == 1
MaxInflight == 2
SummaryCap == 2
MaxEvents == 3
MaxCalls == 2
FiredCap == 2

\* ------------------------------------------------------ program constants
\* Length of a calendar day, and the configured times of day, in clock units
\* (03:00 -> 0, 05:00 -> 1, 11:00 and 11:30 -> 2, 18:15 -> 3).
DayLen == 4
\* development mode: "seconds: 10" / "seconds: 20" / registrationDurationSeconds
DevOpenDelay == 1
DevLateEveningDelay == 2
DevDuration == 1

MEAL == "MEAL_REGISTRATION"
LATE_MORNING == "LATE_MORNING_REGISTRATION"
LATE_EVENING == "LATE_EVENING_REGISTRATION"
CUSTOM == "CUSTOM"

\* MessageTaskType values that open a registration window
RegTypes == {MEAL, LATE_MORNING, LATE_EVENING}

ONE_TIME == "ONE_TIME"
RECURRING == "RECURRING"

\* config.json.timing defaults: startTime / endTime of each registration
StartTime(mtype) ==
  CASE mtype = MEAL -> 1
    [] mtype = LATE_MORNING -> 1
    [] mtype = LATE_EVENING -> 2

EndTime(mtype) ==
  CASE mtype = MEAL -> 0
    [] mtype = LATE_MORNING -> 2
    [] mtype = LATE_EVENING -> 3

\* ---------------------------------------------------------------- time
\* formatDateTime(t, DATE_ONLY): the calendar day of an instant
DateOnly(t) == t \div DayLen

\* parseTimeString(timeString): today's date (at `t`) at the given time of day
parseTimeString(tod, t) == DateOnly(t) * DayLen + tod

\* variant: the time of day on the current date, passed or not
getNextOccurrence_Today(tod, t) == parseTimeString(tod, t)

\* getNextOccurrence(timeString) evaluated at instant t
getNextOccurrence(tod, t) ==
  LET targetTime == parseTimeString(tod, t)
  IN  IF targetTime < t THEN targetTime + DayLen ELSE targetTime

NoIdentifier == <<>>
NoTime == 0 - 1

\* the identifier string `${type}_${dd/MM/yyyy}` built at instant t
Identifier(mtype, t) == <<mtype, DateOnly(t)>>

\* MessageTaskData of a registration-opening task
OpenData(mtype, endTime, identifier) ==
  [type |-> mtype, endTime |-> endTime, identifier |-> identifier,
   registrationIdentifier |-> NoIdentifier]

\* MessageTaskData of the CUSTOM task that ends a registration
EndData(registrationIdentifier) ==
  [type |-> CUSTOM, endTime |-> NoTime, identifier |-> NoIdentifier,
   registrationIdentifier |-> registrationIdentifier]

\* createMealRegistrationData / createLateRegistrationData, evaluated at t:
\* only the regular registration moves an end before the start to the next day
createRegistrationData(mtype, t) ==
  LET startTime == parseTimeString(StartTime(mtype), t)
      endTime == parseTimeString(EndTime(mtype), t)
      endTimestamp == IF mtype = MEAL /\ endTime < startTime
                      THEN endTime + DayLen ELSE endTime
  IN  OpenData(mtype, endTimestamp, Identifier(mtype, t))

\* --------------------------------------------------------------- scheduler
\* The scheduler's state is passed around as a record
\*   [tasks: in-memory task map, timers: ids with an armed timer,
\*    db: the scheduler_tasks table].
\* A map is a set of task records with pairwise distinct ids.
TaskIds(ts) == {t.id : t \in ts}
TaskOf(ts, id) == CHOOSE t \in ts : t.id = id
Without(ts, id) == {t \in ts : t.id # id}

\* MessageScheduler.scheduleOnce: `message_${type}_${Date.now()}`
OnceId(mtype, t) == <<mtype, t>>
\* MessageScheduler.scheduleRecurring: `message_${type}_recurring_${pattern}`
RecurringId(mtype, pattern) == <<mtype, "recurring", pattern>>

\* variant: cancelTask removes the task whether or not it has a timer
cancelTask_Always(st, id) ==
  [tasks |-> Without(st.tasks, id),
   timers |-> st.timers \ {id},
   db |-> Without(st.db, id)]

\* Scheduler.cancelTask
cancelTask(st, id) ==
  IF id \in st.timers
  THEN [tasks |-> Without(st.tasks, id),
        timers |-> st.timers \ {id},
        db |-> Without(st.db, id)]
  ELSE st

\* Scheduler.scheduleTask: cancel, tasks.set, setTimeout, saveTask
scheduleTask(st, task) ==
  LET c == cancelTask(st, task.id)
  IN  [tasks |-> Without(c.tasks, task.id) \cup {task},
       timers |-> c.timers \cup {task.id},
       db |-> Without(c.db, task.id) \cup {task}]

\* MessageScheduler.scheduleOnce -> Scheduler.scheduleOnce, called at instant t
scheduleOnce(st, executeAt, data, t) ==
  scheduleTask(st, [id |-> OnceId(data.type, t), type |-> ONE_TIME,
                    executeAt |-> executeAt, data |-> data, pattern |-> NoTime])

\* MessageScheduler.scheduleRecurring -> Scheduler.scheduleRecurring at instant t
scheduleRecurring(st, pattern, data, t) ==
  scheduleTask(st, [id |-> RecurringId(data.type, pattern), type |-> RECURRING,
                    executeAt |-> getNextOccurrence(pattern, t),
                    data |-> data, pattern |-> pattern])

\* Scheduler.executeTask, the part after emit('taskExecuted'): a recurring
\* task is rescheduled at its next occurrence, a one-time task is removed
afterExecute(st, task, t) ==
  IF task.type = RECURRING
  THEN scheduleTask(st, [task EXCEPT !.executeAt = getNextOccurrence(task.pattern, t)])
  ELSE [tasks |-> Without(st.tasks, task.id),
        timers |-> st.timers \ {task.id},
        db |-> Without(st.db, task.id)]

\* Scheduler.initialize: loadTasks(), then scheduleTask for every loaded task
initialize(db) == [tasks |-> db, timers |-> TaskIds(db), db |-> db]

\* ------------------------------------------------------------------ state
VARIABLES
  up,             \* the process is running (its ready handler has run)
  isDevelopment,  \* config.isDevelopment
  regType,        \* the registration (MessageTaskType) this behaviour follows
  now,            \* the clock: getCurrentTime().toMillis() / Date.now()
  restarts,       \* process starts so far
  failures,       \* gateway calls that have failed so far
  tasks,          \* Scheduler.tasks
  timers,         \* Scheduler.timers (ids with an armed timer)
  dbTasks,        \* table scheduler_tasks
  registrations,  \* table active_registrations
  nextMsg,        \* gateway: id of the next message sent to a channel
  gone,           \* gateway: registration messages that were deleted
  summaries,      \* gateway: completion summaries delivered, per window
  opens,          \* pending channel.send of registration messages
  closes,         \* suspended processRegistrationEnd invocations
  recovery,       \* the suspended recoverState loop
  processed,      \* history: windows whose row close processing removed
  closeFailed,    \* history: windows for which a close processing run failed
  reaction_data,  \* table reaction_data
  nextRowId,      \* AUTOINCREMENT counter of reaction_data
  handlers,       \* suspended reaction handlers
  delivered,      \* history: last event the gateway delivered, per key
  recorded,       \* history: last event written to the ledger, per key
  run,            \* Scheduler: statements left in the running synchronous call
  loop,           \* event loop: timeouts set and neither run nor cleared
  handles,        \* Scheduler.timers: the timeout stored under each id
  fired,          \* history: 'taskExecuted' emitted per id since it was scheduled
  issued,         \* history: type of the task last scheduled under each id
  calls,          \* history: calls made to the Scheduler's public methods
  cancelled,      \* history: what the last call of cancelTask returned
  recentErrors,   \* errors.ts recentErrors: types handleSchedulerError was given
  evaluated       \* history: the last call of a timeUtils function and its result

lifecycleVars == <<up, isDevelopment, regType, now, restarts, failures, tasks, timers,
                   dbTasks, registrations, nextMsg, gone, summaries, opens,
                   closes, recovery, processed, closeFailed>>
ledgerVars == <<reaction_data, nextRowId, handlers, delivered, recorded>>
schedVars == <<run, loop, handles, fired, issued, calls, cancelled, recentErrors,
               evaluated>>
vars == <<lifecycleVars, ledgerVars, schedVars>>

\* ids the Scheduler's client uses for its tasks
SchedIds == {"a", "b"}

\* no timeUtils function has been called yet
NoEval == [fn |-> "none", timeString |-> 0, at |-> 0, value |-> 0]

\* the Scheduler after construction: nothing running, nothing armed
SchedIdle ==
  /\ run = <<>>
  /\ loop = {}
  /\ handles = {}
  /\ fired = [i \in SchedIds |-> 0]
  /\ issued = [i \in SchedIds |-> "none"]
  /\ calls = 0
  /\ cancelled = "none"
  /\ recentErrors = {}
  /\ evaluated = NoEval

Msgs == 1..MaxMsgs
Idle == [todo |-> <<>>, now |-> NoTime]

Min(a, b) == IF a < b THEN a ELSE b

\* activeRegistrations.getAll(): rows in insertion (rowid) order; message
\* ids are handed out in increasing order
RECURSIVE getAll(_)
getAll(regs) ==
  IF regs = {} THEN <<>>
  ELSE LET first == CHOOSE r \in regs : \A q \in regs : r.message_id <= q.message_id
       IN  <<first>> \o getAll(regs \ {first})

\* activeRegistrations.remove(messageId)
removeRegistration(regs, messageId) == {r \in regs : r.message_id # messageId}

\* activeRegistrations.add(registration): message_id is the primary key, and
\* the only uniqueness constraint of the table
addRegistration(regs, row) ==
  IF row.message_id \in {r.message_id : r \in regs} THEN regs ELSE regs \cup {row}

RemoveAt(s, i) == SubSeq(s, 1, i - 1) \o SubSeq(s, i + 1, Len(s))

\* ------------------------------------------------- task-executed listener
\* processRegistrationEnd up to its first await: look the window up by its
\* identifier and start fetching its message
processRegistrationEndStart(cl, regs, registrationIdentifier) ==
  LET activeRegs == getAll(regs)
      found == {i \in 1..Len(activeRegs) :
                  activeRegs[i].identifier_string = registrationIdentifier}
  IN  IF found = {} THEN cl
      ELSE LET registration == activeRegs[CHOOSE i \in found : \A j \in found : i <= j]
           IN  Append(cl, [reg |-> registration, pc |-> "fetch", reactions |-> {}])

\* MessageScheduler.handleTaskExecution(task), on io = [opens, closes]
handleTaskExecution(io, task, regs) ==
  IF task.data.type = CUSTOM /\ task.data.registrationIdentifier # NoIdentifier
  THEN [io EXCEPT !.closes =
          processRegistrationEndStart(io.closes, regs, task.data.registrationIdentifier)]
  ELSE [io EXCEPT !.opens = Append(io.opens, task.data)]

\* Scheduler.executeTask(id) at instant t, on w = [st, io]
executeTask(w, id, regs, t) ==
  IF id \notin TaskIds(w.st.tasks) THEN w
  ELSE LET task == TaskOf(w.st.tasks, id)
       IN  [st |-> afterExecute(w.st, task, t),
            io |-> handleTaskExecution(w.io, task, regs)]

World == [st |-> [tasks |-> tasks, timers |-> timers, db |-> dbTasks],
          io |-> [opens |-> opens, closes |-> closes]]

SetWorld(w) ==
  /\ tasks' = w.st.tasks
  /\ timers' = w.st.timers
  /\ dbTasks' = w.st.db
  /\ opens' = w.io.opens
  /\ closes' = w.io.closes

Room(w) == Len(w.io.opens) <= MaxInflight /\ Len(w.io.closes) <= MaxInflight

\* close processing that removes the row as soon as the summary is sent
processRegistrationEnd_DeleteOnSend(c, outcome, regs, sums) ==
  LET messageId == c.reg.message_id
      stay(pc) == [pc |-> pc, regs |-> regs, sums |-> sums]
  IN  IF outcome # "ok" THEN stay("failed")
      ELSE CASE c.pc = "fetch" -> stay("roster")
             [] c.pc = "roster" -> stay("send")
             [] c.pc = "send" ->
                  [pc |-> "strip", regs |-> removeRegistration(regs, messageId),
                   sums |-> [sums EXCEPT ![messageId] = Min(@ + 1, SummaryCap)]]
             [] c.pc = "strip" -> stay("done")

\* ------------------------------------------------------- close processing
\* processRegistrationEnd resumed after the await it is suspended on (c.pc)
\* with the gateway call's outcome: the next suspension point ("done" when
\* the run returned, "failed" when it threw or gave up), the table
\* active_registrations and the summaries delivered
processRegistrationEnd(c, outcome, regs, sums) ==
  LET messageId == c.reg.message_id
      stay(pc) == [pc |-> pc, regs |-> regs, sums |-> sums]
  IN  IF outcome # "ok" THEN stay("failed")
      ELSE CASE c.pc = "fetch" -> stay("roster")
             [] c.pc = "roster" -> stay("send")
             [] c.pc = "send" ->
                  [pc |-> "strip", regs |-> regs,
                   sums |-> [sums EXCEPT ![messageId] = Min(@ + 1, SummaryCap)]]
             [] c.pc = "strip" ->
                  [pc |-> "done", regs |-> removeRegistration(regs, messageId),
                   sums |-> sums]

\* recovery that schedules the close of every window for the instant it runs
recoverRegistration_Now(st, regs, registration, checked, outcome, t) ==
  IF outcome # "ok"
  THEN [st |-> st, regs |-> removeRegistration(regs, registration.message_id)]
  ELSE [st |-> scheduleOnce(st, checked,
                            EndData(registration.identifier_string), t),
        regs |-> regs]

\* recovery that schedules the close of every window at its end_timestamp
recoverRegistration_AtEnd(st, regs, registration, checked, outcome, t) ==
  IF outcome # "ok"
  THEN [st |-> st, regs |-> removeRegistration(regs, registration.message_id)]
  ELSE [st |-> scheduleOnce(st, registration.end_timestamp,
                            EndData(registration.identifier_string), t),
        regs |-> regs]

\* -------------------------------------------------------------- recovery
\* recoverRegistration resumed after its message fetch: `checked` is the
\* instant read before the fetch, t the instant of the continuation
recoverRegistration(st, regs, registration, checked, outcome, t) ==
  IF outcome # "ok"
  THEN [st |-> st, regs |-> removeRegistration(regs, registration.message_id)]
  ELSE IF registration.end_timestamp <= checked
       THEN [st |-> scheduleOnce(st, checked,
                                 EndData(registration.identifier_string), t),
             regs |-> regs]
       ELSE [st |-> scheduleOnce(st, registration.end_timestamp,
                                 EndData(registration.identifier_string), t),
             regs |-> regs]

\* ----------------------------------------- MealRegistrationService.initialize
\* scheduleMealRegistrationMessage / scheduleLateRegistrationMessage followed
\* by scheduleRegistrationEnd (development mode), at instant t
scheduleRegistrationMessage(st, mtype, executeAt, endAt, t) ==
  LET data == OpenData(mtype, endAt, Identifier(mtype, t))
  IN  scheduleOnce(scheduleOnce(st, executeAt, data, t),
                   endAt, EndData(data.identifier), t)

DevDelay(mtype) == IF mtype = LATE_EVENING THEN DevLateEveningDelay ELSE DevOpenDelay

\* scheduleRegularMealRegistration / scheduleLateMorningRegistration /
\* scheduleLateEveningRegistration, at instant t
scheduleRegistration(st, dev, mtype, t) ==
  IF dev
  THEN scheduleRegistrationMessage(st, mtype, t + DevDelay(mtype), t + DevDuration, t)
  ELSE scheduleRecurring(st, StartTime(mtype), createRegistrationData(mtype, t), t)

\* ---------------------------------------------------------------- actions
GatewayFails == failures < MaxFailures

\* outcomes of fetching registration message m
FetchOutcomes(m) ==
  IF m \in gone THEN {"notfound"}
  ELSE {"ok"} \cup (IF GatewayFails THEN {"error"} ELSE {})
\* outcomes of any other gateway call
CallOutcomes == {"ok"} \cup (IF GatewayFails THEN {"error"} ELSE {})
Result(outcome) == IF outcome = "ok" THEN "ok" ELSE "fail"
Budget(outcome) == failures' = IF outcome = "error" THEN failures + 1 ELSE failures

\* the 'ready' handler of main(): scheduler.initialize, messageScheduler
\* .initialize, stateRecoveryService.initialize (recoverState runs up to its
\* first await), mealRegistrationService.initialize.  Of the three
\* registrations that initialize schedules, a behaviour follows one,
\* regType.
Boot ==
  /\ ~up
  /\ restarts < MaxRestarts
  /\ LET s == scheduleRegistration(initialize(dbTasks), isDevelopment, regType, now)
     IN  /\ tasks' = s.tasks
         /\ timers' = s.timers
         /\ dbTasks' = s.db
  /\ up' = TRUE
  /\ restarts' = restarts + 1
  /\ recovery' = [todo |-> getAll(registrations), now |-> now]
  /\ UNCHANGED <<isDevelopment, regType, now, failures, registrations, nextMsg,
                 gone, summaries, opens, closes, processed, closeFailed, ledgerVars, schedVars>>

\* the process stops (crash, SIGINT/SIGTERM): everything in memory is lost
Crash ==
  /\ up
  /\ restarts < MaxRestarts
  /\ up' = FALSE
  /\ tasks' = {}
  /\ timers' = {}
  /\ opens' = <<>>
  /\ closes' = <<>>
  /\ recovery' = Idle
  /\ UNCHANGED <<isDevelopment, regType, now, restarts, failures, dbTasks, registrations,
                 nextMsg, gone, summaries, processed, closeFailed, ledgerVars, schedVars>>

\* the clock advances; it is started by the first start of the process
Tick ==
  /\ restarts > 0
  /\ now < MaxTime
  /\ now' = now + 1
  /\ UNCHANGED <<up, isDevelopment, regType, restarts, failures, tasks, timers, dbTasks,
                 registrations, nextMsg, gone, summaries, opens, closes, recovery,
                 processed, closeFailed, ledgerVars, schedVars>>

\* the setTimeout callback of task id: executeTask(id)
TimerFire(id) ==
  /\ up
  /\ id \in timers
  /\ id \in TaskIds(tasks)
  /\ TaskOf(tasks, id).executeAt <= now
  /\ LET w == executeTask(World, id, registrations, now)
     IN  Room(w) /\ SetWorld(w)
  /\ UNCHANGED <<up, isDevelopment, regType, now, restarts, failures, registrations, nextMsg,
                 gone, summaries, recovery, processed, closeFailed, ledgerVars, schedVars>>

\* Scheduler.checkTasks, the setInterval callback: every task that is due and
\* still has a timer gets its timer cleared and is executed
RECURSIVE executeAll(_, _, _, _)
executeAll(w, ids, regs, t) ==
  IF ids = {} THEN w
  ELSE LET id == CHOOSE i \in ids : TRUE
           cleared == [w EXCEPT !.st.timers = @ \ {id}]
       IN  executeAll(executeTask(cleared, id, regs, t), ids \ {id}, regs, t)

checkTasks(w, regs, t) ==
  executeAll(w, {task.id : task \in {x \in w.st.tasks :
                                       x.executeAt <= t /\ x.id \in w.st.timers}},
             regs, t)

CheckTasks ==
  /\ up
  /\ LET w == checkTasks(World, registrations, now)
     IN  Room(w) /\ SetWorld(w)
  /\ UNCHANGED <<up, isDevelopment, regType, now, restarts, failures, registrations, nextMsg,
                 gone, summaries, recovery, processed, closeFailed, ledgerVars, schedVars>>

\* channel.send(messageOptions) of a registration message resolves
OpenSendDone(i, outcome) ==
  /\ up
  /\ i \in 1..Len(opens)
  /\ outcome \in CallOutcomes
  /\ outcome = "ok" => nextMsg <= MaxMsgs
  /\ Budget(outcome)
  /\ opens' = RemoveAt(opens, i)
  /\ IF outcome = "ok"
     THEN /\ registrations' = addRegistration(registrations,
                [message_id |-> nextMsg, registration_type |-> opens[i].type,
                 end_timestamp |-> opens[i].endTime,
                 identifier_string |-> opens[i].identifier])
          /\ nextMsg' = nextMsg + 1
     ELSE UNCHANGED <<registrations, nextMsg>>
  /\ UNCHANGED <<up, isDevelopment, regType, now, restarts, tasks, timers, dbTasks, gone,
                 summaries, closes, recovery, processed, closeFailed, ledgerVars, schedVars>>

\* a read that does not filter on removed = 0
getActiveByMessageId_All(rd, messageId) ==
  {r \in rd : r.message_id = messageId}

\* reactionData.getActiveByMessageId
getActiveByMessageId(rd, messageId) ==
  {r \in rd : r.message_id = messageId /\ ~r.removed}

\* processRegistrationEnd number i resumes from the await named by pc; once
\* the message is fetched it reads the window's active reactions into its
\* local `reactions`, before it awaits the roster
CloseStep(i, pc, outcome) ==
  /\ up
  /\ i \in 1..Len(closes)
  /\ closes[i].pc = pc
  /\ Budget(outcome)
  /\ LET r == processRegistrationEnd(closes[i], Result(outcome), registrations, summaries)
         m == closes[i].reg.message_id
     IN  /\ registrations' = r.regs
         /\ summaries' = r.sums
         /\ closes' = IF r.pc \in {"done", "failed"} THEN RemoveAt(closes, i)
                      ELSE [closes EXCEPT ![i].pc = r.pc,
                                          ![i].reactions =
                                             IF pc = "fetch"
                                             THEN getActiveByMessageId(reaction_data, m)
                                             ELSE @]
         /\ processed' = IF r.pc = "done" THEN processed \cup {m} ELSE processed
         /\ closeFailed' = IF r.pc = "failed" THEN closeFailed \cup {m} ELSE closeFailed
  /\ UNCHANGED <<up, isDevelopment, regType, now, restarts, tasks, timers, dbTasks, nextMsg,
                 gone, opens, recovery, ledgerVars, schedVars>>

\* await channel.messages.fetch(messageId)
CloseFetchDone(i, outcome) ==
  /\ i \in 1..Len(closes)
  /\ outcome \in FetchOutcomes(closes[i].reg.message_id)
  /\ CloseStep(i, "fetch", outcome)

\* await getMembersWithRole(client, trackedRoleId)
CloseRosterDone(i, outcome) ==
  /\ outcome \in CallOutcomes
  /\ CloseStep(i, "roster", outcome)

\* await channel.send({ embeds: [embed] })
CloseSendDone(i, outcome) ==
  /\ outcome \in CallOutcomes
  /\ CloseStep(i, "send", outcome)

\* await message.reactions.removeAll()
CloseStripDone(i, outcome) ==
  /\ outcome \in CallOutcomes
  /\ CloseStep(i, "strip", outcome)

\* recoverRegistration of the first window left resumes from its message
\* fetch; recoverState then enters recoverRegistration of the next window
RecoverFetchDone(outcome) ==
  /\ up
  /\ recovery.todo # <<>>
  /\ outcome \in FetchOutcomes(Head(recovery.todo).message_id)
  /\ Budget(outcome)
  /\ LET r == recoverRegistration([tasks |-> tasks, timers |-> timers, db |-> dbTasks],
                                  registrations, Head(recovery.todo), recovery.now,
                                  Result(outcome), now)
     IN  /\ tasks' = r.st.tasks
         /\ timers' = r.st.timers
         /\ dbTasks' = r.st.db
         /\ registrations' = r.regs
  /\ recovery' = IF Tail(recovery.todo) = <<>> THEN Idle
                 ELSE [todo |-> Tail(recovery.todo), now |-> now]
  /\ UNCHANGED <<up, isDevelopment, regType, now, restarts, nextMsg, gone, summaries, opens,
                 closes, processed, closeFailed, ledgerVars, schedVars>>

\* somebody deletes a registration message in the channel
MessageDeleted(m) ==
  /\ m \in 1..(nextMsg - 1)
  /\ m \notin gone
  /\ gone' = gone \cup {m}
  /\ UNCHANGED <<up, isDevelopment, regType, now, restarts, failures, tasks, timers, dbTasks,
                 registrations, nextMsg, summaries, opens, closes, recovery,
                 processed, closeFailed, ledgerVars, schedVars>>

\* ------------------------------------------------------------ the ledger
Users == {"U1", "U2"}
\* config.json.emojis
Emojis == {"breakfast", "dinner", "late"}

\* VALID_EMOJIS of reactionEvents.ts
ValidEmojis(registrationType) ==
  CASE registrationType = MEAL -> {"breakfast", "dinner"}
    [] registrationType = LATE_MORNING -> {"late"}
    [] registrationType = LATE_EVENING -> {"late"}
    [] OTHER -> {}

\* variant: every emoji is valid for every registration type
isValidEmoji_Any(emoji, registrationType) == TRUE

\* isValidEmoji(emoji, registrationType)
isValidEmoji(emoji, registrationType) == emoji \in ValidEmojis(registrationType)

\* getRegistrationType(messageId): activeRegistrations.getByMessageId
getRegistrationType(regs, messageId) ==
  IF \E r \in regs : r.message_id = messageId
  THEN (CHOOSE r \in regs : r.message_id = messageId).registration_type
  ELSE "null"

SameKey(r, userId, messageId, reactionType) ==
  r.user_id = userId /\ r.message_id = messageId /\ r.reaction_type = reactionType

\* a plain INSERT into a table without the UNIQUE constraint
reactionDataAdd_Insert(rd, id, userId, messageId, reactionType, timestamp) ==
  rd \cup {[id |-> id, user_id |-> userId, message_id |-> messageId,
            reaction_type |-> reactionType, timestamp |-> timestamp, removed |-> FALSE]}

\* reactionData.add: INSERT OR REPLACE under UNIQUE(user_id, message_id,
\* reaction_type); the row inserted gets the next AUTOINCREMENT id
reactionDataAdd(rd, id, userId, messageId, reactionType, timestamp) ==
  {r \in rd : ~SameKey(r, userId, messageId, reactionType)} \cup
  {[id |-> id, user_id |-> userId, message_id |-> messageId,
    reaction_type |-> reactionType, timestamp |-> timestamp, removed |-> FALSE]}

\* an opt-out that creates a removed record when there is none
markAsRemoved_Upsert(rd, userId, messageId, reactionType, timestamp) ==
  IF \E r \in rd : SameKey(r, userId, messageId, reactionType)
  THEN {IF SameKey(r, userId, messageId, reactionType)
        THEN [r EXCEPT !.removed = TRUE, !.timestamp = timestamp]
        ELSE r : r \in rd}
  ELSE rd \cup {[id |-> 0, user_id |-> userId, message_id |-> messageId,
                 reaction_type |-> reactionType, timestamp |-> timestamp,
                 removed |-> TRUE]}

\* reactionData.markAsRemoved: UPDATE ... SET removed = 1, timestamp = ?
markAsRemoved(rd, userId, messageId, reactionType, timestamp) ==
  {IF SameKey(r, userId, messageId, reactionType)
   THEN [r EXCEPT !.removed = TRUE, !.timestamp = timestamp]
   ELSE r : r \in rd}

\* processRegistrationEnd: reactions.filter(r => r.reaction_type === emoji)
\* .map(r => r.user_id)
activeParticipants(rd, messageId, reactionType) ==
  {r.user_id : r \in {x \in getActiveByMessageId(rd, messageId) :
                        x.reaction_type = reactionType}}

\* The ledger while one regular registration window is open: message 1 was
\* sent by the open task of the first day and its window has not ended.
OpenWindow ==
  [message_id |-> 1, registration_type |-> MEAL, end_timestamp |-> DayLen,
   identifier_string |-> Identifier(MEAL, 0)]

\* the reactions users place, and the messages they place them on
ReactionKinds == {"breakfast", "dinner"}
LedgerMsgs == {OpenWindow.message_id}
\* the messages a reaction event can name: message 2 is not a registration
\* message
EventMsgs == {1, 2}
\* the bot's own account, and other bots
Bots == {"B1"}
Keys == (Users \cup Bots) \X EventMsgs \X Emojis
\* handleReactionAdd / handleReactionRemove after the reaction, user and
\* message are fully fetched: the handler goes on to `await hasRole` only for
\* a registration message and an emoji valid for its registration type
Accepts(regs, h) ==
  LET registrationType == getRegistrationType(regs, h.message_id)
  IN  registrationType # "null" /\ isValidEmoji(h.emoji, registrationType)

\* The gateway delivers MessageReactionAdd / MessageReactionRemove; the
\* handler runs up to its first await on the gateway: the fetch of a partial
\* reaction, or `await hasRole(client, fullUser.id)`
Deliver(op, userId, messageId, emoji, partial) ==
  /\ up
  /\ Len(handlers) < MaxInflight
  /\ delivered.count < MaxEvents
  /\ LET h == [op |-> op, user_id |-> userId, message_id |-> messageId,
               emoji |-> emoji, pc |-> IF partial THEN "fetch" ELSE "role"]
     IN  handlers' = IF partial \/ Accepts(registrations, h)
                     THEN Append(handlers, h) ELSE handlers
  /\ delivered' = [count |-> delivered.count + 1,
                   last |-> [delivered.last EXCEPT ![<<userId, messageId, emoji>>] = op]]
  /\ UNCHANGED <<lifecycleVars, schedVars, reaction_data, nextRowId, recorded>>

\* `await reaction.fetch()` of a partial reaction resolves
HandlerFetched(i) ==
  /\ up
  /\ i \in 1..Len(handlers)
  /\ handlers[i].pc = "fetch"
  /\ handlers' = IF Accepts(registrations, handlers[i])
                 THEN [handlers EXCEPT ![i].pc = "role"]
                 ELSE RemoveAt(handlers, i)
  /\ UNCHANGED <<lifecycleVars, schedVars, reaction_data, nextRowId, delivered, recorded>>

\* `await hasRole(...)` resolves: the handler writes to reaction_data
HandlerRoleDone(i) ==
  /\ up
  /\ i \in 1..Len(handlers)
  /\ handlers[i].pc = "role"
  /\ LET h == handlers[i]
         key == <<h.user_id, h.message_id, h.emoji>>
     IN  /\ IF h.op = "add"
            THEN /\ reaction_data' = reactionDataAdd(reaction_data, nextRowId, h.user_id,
                                                     h.message_id, h.emoji, now)
                 /\ nextRowId' = nextRowId + 1
            ELSE /\ reaction_data' = markAsRemoved(reaction_data, h.user_id,
                                                   h.message_id, h.emoji, now)
                 /\ nextRowId' = nextRowId
         /\ recorded' = [recorded EXCEPT ![key] = Append(@, h.op)]
  /\ handlers' = RemoveAt(handlers, i)
  /\ UNCHANGED <<lifecycleVars, schedVars, delivered>>

Outcomes == {"ok", "error", "notfound"}

Init ==
  /\ up = FALSE
  /\ isDevelopment \in BOOLEAN
  /\ regType \in RegTypes
  /\ now \in 0..(DayLen - 1)
  /\ restarts = 0
  /\ failures = 0
  /\ tasks = {}
  /\ timers = {}
  /\ dbTasks = {}
  /\ registrations = {}
  /\ nextMsg = 1
  /\ gone = {}
  /\ summaries = [m \in 1..(MaxMsgs + 1) |-> 0]
  /\ opens = <<>>
  /\ closes = <<>>
  /\ recovery = Idle
  /\ processed = {}
  /\ closeFailed = {}
  /\ reaction_data = {}
  /\ nextRowId = 1
  /\ handlers = <<>>
  /\ delivered = [count |-> 0, last |-> [k \in Keys |-> "none"]]
  /\ recorded = [k \in Keys |-> <<>>]
  /\ SchedIdle

Next ==
  \/ Boot
  \/ Crash
  \/ Tick
  \/ \E id \in timers : TimerFire(id)
  \/ CheckTasks
  \/ \E i \in 1..MaxInflight + 1, o \in Outcomes : OpenSendDone(i, o)
  \/ \E i \in 1..MaxInflight + 1, o \in Outcomes : CloseFetchDone(i, o)
  \/ \E i \in 1..MaxInflight + 1, o \in Outcomes : CloseRosterDone(i, o)
  \/ \E i \in 1..MaxInflight + 1, o \in Outcomes : CloseSendDone(i, o)
  \/ \E i \in 1..MaxInflight + 1, o \in Outcomes : CloseStripDone(i, o)
  \/ \E o \in Outcomes : RecoverFetchDone(o)
  \/ \E m \in Msgs : MessageDeleted(m)

Spec == Init /\ [][Next]_vars

InitLedger ==
  /\ up = TRUE
  /\ isDevelopment = FALSE
  /\ regType = MEAL
  /\ now = StartTime(MEAL)
  /\ restarts = 1
  /\ failures = 0
  /\ tasks = {}
  /\ timers = {}
  /\ dbTasks = {}
  /\ registrations = {OpenWindow}
  /\ nextMsg = 2
  /\ gone = {}
  /\ summaries = [m \in 1..(MaxMsgs + 1) |-> 0]
  /\ opens = <<>>
  /\ closes = <<>>
  /\ recovery = Idle
  /\ processed = {}
  /\ closeFailed = {}
  /\ reaction_data = {}
  /\ nextRowId = 1
  /\ handlers = <<>>
  /\ delivered = [count |-> 0, last |-> [k \in Keys |-> "none"]]
  /\ recorded = [k \in Keys |-> <<>>]
  /\ SchedIdle

NextLedger ==
  \/ \E op \in {"add", "remove"}, u \in Users, m \in LedgerMsgs, e \in ReactionKinds,
        partial \in BOOLEAN : Deliver(op, u, m, e, partial)
  \/ \E i \in 1..MaxInflight : HandlerFetched(i)
  \/ \E i \in 1..MaxInflight : HandlerRoleDone(i)
  \/ Tick

SpecLedger == InitLedger /\ [][NextLedger]_vars

\* ------------------------------------------- the Scheduler, step by step
\* The Scheduler alone, driven through its public methods by a client, with
\* every synchronous call unfolded into the statements it runs.  `run` holds
\* the statements the running call has still to execute; timer callbacks
\* and new calls start only when it is empty, the clock may advance between
\* two statements, and the process stops between calls.  TaskStore calls
\* succeed and the subscriber of 'taskExecuted' returns normally.
Payloads == {"p", "q"}
Patterns == {1}
DaySets == {{}, {2}}

\* luxon DateTime.weekday % 7 (0 is Sunday); day 0 of the clock is a Monday
dayOfWeek(t) == (DateOnly(t) + 1) % 7

Max(a, b) == IF a >= b THEN a ELSE b

NoTask == [id |-> "", type |-> "", executeAt |-> NoTime, data |-> "",
           pattern |-> NoTime, days |-> {}]

\* a statement of a running call; todo/at/overdue/hit belong to the sweep:
\* ids still to visit, the `now` it read, and (history) the ids that were
\* overdue when it started and the ids it has executed; `replaced`
\* (history) marks the statements of a scheduleTask call whose cancelTask
\* found and removed an armed task under the id
Stmt(op, id, task) ==
  [op |-> op, id |-> id, task |-> task, todo |-> {}, at |-> NoTime,
   overdue |-> {}, hit |-> {}, replaced |-> FALSE]

\* Scheduler.scheduleOnce: the task it builds
OnceTask(id, executeAt, data) ==
  [id |-> id, type |-> ONE_TIME, executeAt |-> executeAt, data |-> data,
   pattern |-> NoTime, days |-> {}]

\* Scheduler.scheduleRecurring at instant t: the task it builds
RecurringTask(id, pattern, data, days, t) ==
  [id |-> id, type |-> RECURRING, executeAt |-> getNextOccurrence(pattern, t),
   data |-> data, pattern |-> pattern, days |-> days]

\* variant: the timeout is set to the absolute time instead of the time left
delay_Absolute(task, t) == task.executeAt

\* Scheduler.scheduleTask: `Math.max(0, task.executeAt - now)`
delay(task, t) == Max(0, task.executeAt - t)

\* variant: scheduleTask without its cancelTask call
scheduleTaskRun_NoCancel(task) ==
  << Stmt("tasks.set", task.id, task), Stmt("setTimeout", task.id, task),
     Stmt("saveTask", task.id, task) >>

\* variant: scheduleTask without its saveTask call
scheduleTaskRun_NoSave(task) ==
  << Stmt("cancelTask", task.id, NoTask), Stmt("tasks.set", task.id, task),
     Stmt("setTimeout", task.id, task) >>

\* Scheduler.scheduleTask: its statements, in the order of the source
scheduleTaskRun(task) ==
  << Stmt("cancelTask", task.id, NoTask), Stmt("tasks.set", task.id, task),
     Stmt("setTimeout", task.id, task), Stmt("saveTask", task.id, task) >>

\* Scheduler.findNextValidDay
findNextValidDay(currentDay, validDays) ==
  IF \E d \in validDays : d > currentDay
  THEN CHOOSE d \in validDays :
         d > currentDay /\ \A e \in validDays : e > currentDay => d <= e
  ELSE IF validDays = {} THEN currentDay
       ELSE CHOOSE d \in validDays : \A e \in validDays : d <= e

\* variant: a fired recurring task keeps the executeAt it had
nextExecutionTime_Same(task, t) == task.executeAt

\* Scheduler.executeTask: `nextExecutionTime.toMillis()` of a recurring task
\* at instant t.  The day adjustment calls DateTime.plus, which returns a
\* new DateTime and leaves nextExecutionTime as it was; the returned value
\* (`adjusted`) is discarded.
nextExecutionTime(task, t) ==
  LET next == getNextOccurrence(task.pattern, t)
      nextValidDay == findNextValidDay(dayOfWeek(next), task.days)
      daysToAdd == (nextValidDay - dayOfWeek(next) + 7) % 7
      adjusted == IF task.days # {} /\ dayOfWeek(next) \notin task.days
                  THEN next + daysToAdd * DayLen
                  ELSE next
  IN  next

\* loadTasks(): the rows of scheduler_tasks, in a fixed order
RECURSIVE loadTasks(_)
loadTasks(db) ==
  IF db = {} THEN <<>>
  ELSE LET t == CHOOSE x \in db : TRUE
       IN  <<t>> \o loadTasks(db \ {t})

\* Scheduler.initialize: `tasks.forEach(task => this.scheduleTask(task))`
RECURSIVE scheduleAll(_)
scheduleAll(ts) ==
  IF ts = <<>> THEN <<>> ELSE scheduleTaskRun(Head(ts)) \o scheduleAll(Tail(ts))

Bump(f, id) == [f EXCEPT ![id] = IF @ < FiredCap THEN @ + 1 ELSE @]

\* the timeout stored in Scheduler.timers under an id
Stored(id) == {h \in handles : h.id = id}

\* history: the sweep a statement runs in records the id it executed
MarkHit(stmts, id) ==
  [i \in 1..Len(stmts) |->
     IF stmts[i].op = "forEach" THEN [stmts[i] EXCEPT !.hit = @ \cup {id}]
     ELSE stmts[i]]

\* history: the rest of the scheduleTask call that cancelled the task of `id`
MarkReplaced(stmts, id) ==
  [i \in 1..Len(stmts) |->
     IF i <= 3 /\ stmts[i].id = id /\ stmts[i].op \in {"tasks.set", "setTimeout", "saveTask"}
     THEN [stmts[i] EXCEPT !.replaced = TRUE]
     ELSE stmts[i]]

otherVars == <<isDevelopment, regType, failures, registrations, nextMsg, gone,
               summaries, opens, closes, recovery, processed, closeFailed,
               ledgerVars, recentErrors, evaluated>>

\* Scheduler.initialize in a fresh process
Scheduler_initialize ==
  /\ ~up
  /\ up' = TRUE
  /\ restarts' = restarts + 1
  /\ run' = scheduleAll(loadTasks(dbTasks))
  /\ UNCHANGED <<now, tasks, timers, dbTasks, loop, handles, fired, issued, calls,
                 cancelled, otherVars>>

\* the process stops (Scheduler.stop, then exit; or it is killed)
Scheduler_stop ==
  /\ up
  /\ run = <<>>
  /\ restarts < MaxRestarts
  /\ up' = FALSE
  /\ tasks' = {}
  /\ timers' = {}
  /\ handles' = {}
  /\ loop' = {}
  /\ UNCHANGED <<now, restarts, dbTasks, run, fired, issued, calls, cancelled, otherVars>>

\* Scheduler.scheduleOnce(id, executeAt, data)
Scheduler_scheduleOnce(id, executeAt, data) ==
  /\ up
  /\ run = <<>>
  /\ calls < MaxCalls
  /\ run' = scheduleTaskRun(OnceTask(id, executeAt, data))
  /\ issued' = [issued EXCEPT ![id] = ONE_TIME]
  /\ fired' = [fired EXCEPT ![id] = 0]
  /\ calls' = calls + 1
  /\ UNCHANGED <<up, now, restarts, tasks, timers, dbTasks, loop, handles, cancelled, otherVars>>

\* Scheduler.scheduleRecurring(id, pattern, data, days)
Scheduler_scheduleRecurring(id, pattern, data, days) ==
  /\ up
  /\ run = <<>>
  /\ calls < MaxCalls
  /\ run' = scheduleTaskRun(RecurringTask(id, pattern, data, days, now))
  /\ issued' = [issued EXCEPT ![id] = RECURRING]
  /\ fired' = [fired EXCEPT ![id] = 0]
  /\ calls' = calls + 1
  /\ UNCHANGED <<up, now, restarts, tasks, timers, dbTasks, loop, handles, cancelled, otherVars>>

\* Scheduler.cancelTask(id), called by the client
Scheduler_cancelTask(id) ==
  /\ up
  /\ run = <<>>
  /\ calls < MaxCalls
  /\ run' = <<Stmt("cancelTask", id, NoTask)>>
  /\ issued' = [issued EXCEPT ![id] = IF id \in timers THEN "none" ELSE @]
  /\ cancelled' = IF id \in timers THEN "true" ELSE "false"
  /\ calls' = calls + 1
  /\ UNCHANGED <<up, now, restarts, tasks, timers, dbTasks, loop, handles, fired,
                 otherVars>>

\* the event loop runs a timeout that is due: `() => this.executeTask(task.id)`
TimerCallback(h) ==
  /\ up
  /\ run = <<>>
  /\ h \in loop
  /\ h.due <= now
  /\ loop' = loop \ {h}
  /\ run' = <<Stmt("executeTask", h.id, NoTask)>>
  /\ UNCHANGED <<up, now, restarts, tasks, timers, dbTasks, handles, fired, issued,
                 calls, cancelled, otherVars>>

\* the interval timer runs Scheduler.checkTasks: it reads the clock and
\* starts tasks.forEach
Scheduler_checkTasks ==
  /\ up
  /\ run = <<>>
  /\ run' = << [Stmt("forEach", "", NoTask) EXCEPT
                  !.todo = TaskIds(tasks), !.at = now,
                  !.overdue = {t.id : t \in {x \in tasks : x.executeAt <= now}}] >>
  /\ UNCHANGED <<up, now, restarts, tasks, timers, dbTasks, loop, handles, fired,
                 issued, calls, cancelled, otherVars>>

\* variant: cancelTask without its deleteTask call
Run_cancelTask_KeepsRow ==
  /\ up /\ run # <<>> /\ Head(run).op = "cancelTask"
  /\ LET id == Head(run).id
         c == cancelTask([tasks |-> tasks, timers |-> timers, db |-> dbTasks], id)
     IN  /\ tasks' = c.tasks
         /\ timers' = c.timers
         /\ dbTasks' = dbTasks
         /\ loop' = IF id \in timers THEN loop \ Stored(id) ELSE loop
         /\ handles' = IF id \in timers THEN handles \ Stored(id) ELSE handles
  /\ run' = IF Head(run).id \in timers
            THEN MarkReplaced(Tail(run), Head(run).id)
            ELSE Tail(run)
  /\ UNCHANGED <<up, now, restarts, fired, issued, calls, cancelled, otherVars>>

\* Scheduler.cancelTask: clearTimeout, timers.delete, tasks.delete,
\* deleteTask, if the id has an entry in timers; nothing otherwise
Run_cancelTask ==
  /\ up /\ run # <<>> /\ Head(run).op = "cancelTask"
  /\ LET id == Head(run).id
         c == cancelTask([tasks |-> tasks, timers |-> timers, db |-> dbTasks], id)
     IN  /\ tasks' = c.tasks
         /\ timers' = c.timers
         /\ dbTasks' = c.db
         /\ loop' = IF id \in timers THEN loop \ Stored(id) ELSE loop
         /\ handles' = IF id \in timers THEN handles \ Stored(id) ELSE handles
  /\ run' = IF Head(run).id \in timers
            THEN MarkReplaced(Tail(run), Head(run).id)
            ELSE Tail(run)
  /\ UNCHANGED <<up, now, restarts, fired, issued, calls, cancelled, otherVars>>

\* Scheduler.scheduleTask: `this.tasks.set(task.id, task)`
Run_tasksSet ==
  /\ up /\ run # <<>> /\ Head(run).op = "tasks.set"
  /\ tasks' = Without(tasks, Head(run).id) \cup {Head(run).task}
  /\ run' = Tail(run)
  /\ UNCHANGED <<up, now, restarts, timers, dbTasks, loop, handles, fired, issued,
                 calls, cancelled, otherVars>>

\* Scheduler.scheduleTask: read the clock, setTimeout, timers.set
Run_setTimeout ==
  /\ up /\ run # <<>> /\ Head(run).op = "setTimeout"
  /\ LET id == Head(run).id
         h == [id |-> id, due |-> now + delay(Head(run).task, now)]
     IN  /\ loop' = loop \cup {h}
         /\ handles' = (handles \ Stored(id)) \cup {h}
         /\ timers' = timers \cup {id}
  /\ run' = Tail(run)
  /\ UNCHANGED <<up, now, restarts, tasks, dbTasks, fired, issued, calls, cancelled, otherVars>>

\* Scheduler.scheduleTask: `saveTask(task)` (INSERT OR REPLACE)
Run_saveTask ==
  /\ up /\ run # <<>> /\ Head(run).op = "saveTask"
  /\ dbTasks' = Without(dbTasks, Head(run).id) \cup {Head(run).task}
  /\ run' = Tail(run)
  /\ UNCHANGED <<up, now, restarts, tasks, timers, loop, handles, fired, issued,
                 calls, cancelled, otherVars>>

\* Scheduler.executeTask up to and including emit('taskExecuted', task)
Run_executeTask ==
  /\ up /\ run # <<>> /\ Head(run).op = "executeTask"
  /\ LET id == Head(run).id
     IN  IF id \notin TaskIds(tasks)
         THEN /\ run' = Tail(run)
              /\ fired' = fired
         ELSE /\ fired' = Bump(fired, id)
              /\ run' = << Stmt(IF TaskOf(tasks, id).type = RECURRING
                                THEN "reschedule" ELSE "delete",
                                id, TaskOf(tasks, id)) >>
                        \o MarkHit(Tail(run), id)
  /\ UNCHANGED <<up, now, restarts, tasks, timers, dbTasks, loop, handles, issued,
                 calls, cancelled, otherVars>>

\* Scheduler.executeTask, recurring task: compute the next execution time
\* and call scheduleTask(newTask)
Run_reschedule ==
  /\ up /\ run # <<>> /\ Head(run).op = "reschedule"
  /\ run' = scheduleTaskRun([Head(run).task EXCEPT
                               !.executeAt = nextExecutionTime(Head(run).task, now)])
            \o Tail(run)
  /\ UNCHANGED <<up, now, restarts, tasks, timers, dbTasks, loop, handles, fired,
                 issued, calls, cancelled, otherVars>>

\* variant: a fired one-time task is removed from memory but its row is kept
Run_delete_KeepRow ==
  /\ up /\ run # <<>> /\ Head(run).op = "delete"
  /\ tasks' = Without(tasks, Head(run).id)
  /\ timers' = timers \ {Head(run).id}
  /\ handles' = handles \ Stored(Head(run).id)
  /\ run' = Tail(run)
  /\ UNCHANGED <<up, now, restarts, dbTasks, loop, fired, issued, calls, cancelled, otherVars>>

\* Scheduler.executeTask, one-time task: tasks.delete, timers.delete, deleteTask
Run_delete ==
  /\ up /\ run # <<>> /\ Head(run).op = "delete"
  /\ tasks' = Without(tasks, Head(run).id)
  /\ timers' = timers \ {Head(run).id}
  /\ handles' = handles \ Stored(Head(run).id)
  /\ dbTasks' = Without(dbTasks, Head(run).id)
  /\ run' = Tail(run)
  /\ UNCHANGED <<up, now, restarts, loop, fired, issued, calls, cancelled, otherVars>>

\* variant: a task is missed only when its time lies strictly in the past
isMissed_Strict(task, t, tm) == task.executeAt < t /\ task.id \in tm

\* Scheduler.checkTasks: `task.executeAt <= now && this.timers.has(task.id)`
isMissed(task, t, tm) == task.executeAt <= t /\ task.id \in tm

\* Scheduler.checkTasks: one visit of tasks.forEach.  A visited task that is
\* due and has an entry in timers has its timeout cleared and its entry
\* deleted, and executeTask is called.  The subscriber does not touch the
\* scheduler, so the order of the visits does not change what a visit finds.
Run_forEach ==
  /\ up /\ run # <<>> /\ Head(run).op = "forEach"
  /\ LET s == Head(run)
     IN  IF s.todo = {}
         THEN /\ run' = Tail(run)
              /\ UNCHANGED <<timers, handles, loop>>
         ELSE LET id == CHOOSE x \in s.todo : TRUE
                  rest == [s EXCEPT !.todo = @ \ {id}]
              IN  IF id \in TaskIds(tasks) /\ isMissed(TaskOf(tasks, id), s.at, timers)
                  THEN /\ loop' = loop \ Stored(id)
                       /\ handles' = handles \ Stored(id)
                       /\ timers' = timers \ {id}
                       /\ run' = <<Stmt("executeTask", id, NoTask), rest>> \o Tail(run)
                  ELSE /\ run' = <<rest>> \o Tail(run)
                       /\ UNCHANGED <<timers, handles, loop>>
  /\ UNCHANGED <<up, now, restarts, tasks, dbTasks, fired, issued, calls, cancelled, otherVars>>

\* tables left by an earlier process
InitStores ==
  {{}} \cup {{OnceTask("a", e, "p")} : e \in {0, 2}}
       \cup {{RecurringTask("b", 1, "p", {}, 0)}}

InitSched ==
  /\ up = FALSE
  /\ isDevelopment = FALSE
  /\ regType = MEAL
  /\ now \in 0..1
  /\ restarts = 0
  /\ failures = 0
  /\ tasks = {}
  /\ timers = {}
  /\ dbTasks \in InitStores
  /\ registrations = {}
  /\ nextMsg = 1
  /\ gone = {}
  /\ summaries = [m \in 1..(MaxMsgs + 1) |-> 0]
  /\ opens = <<>>
  /\ closes = <<>>
  /\ recovery = Idle
  /\ processed = {}
  /\ closeFailed = {}
  /\ reaction_data = {}
  /\ nextRowId = 1
  /\ handlers = <<>>
  /\ delivered = [count |-> 0, last |-> [k \in Keys |-> "none"]]
  /\ recorded = [k \in Keys |-> <<>>]
  /\ run = <<>>
  /\ loop = {}
  /\ handles = {}
  /\ fired = [i \in SchedIds |-> 0]
  /\ issued = [i \in SchedIds |->
                 IF i \in TaskIds(dbTasks) THEN TaskOf(dbTasks, i).type ELSE "none"]
  /\ calls = 0
  /\ cancelled = "none"
  /\ recentErrors = {}
  /\ evaluated = NoEval

NextSched ==
  \/ Scheduler_initialize
  \/ Scheduler_stop
  \/ Tick
  \/ \E id \in SchedIds, e \in 0..MaxTime, d \in Payloads :
       Scheduler_scheduleOnce(id, e, d)
  \/ \E id \in SchedIds, p \in Patterns, d \in Payloads, ds \in DaySets :
       Scheduler_scheduleRecurring(id, p, d, ds)
  \/ \E id \in SchedIds : Scheduler_cancelTask(id)
  \/ \E h \in loop : TimerCallback(h)
  \/ Scheduler_checkTasks
  \/ Run_cancelTask
  \/ Run_tasksSet
  \/ Run_setTimeout
  \/ Run_saveTask
  \/ Run_executeTask
  \/ Run_reschedule
  \/ Run_delete
  \/ Run_forEach

SpecSched == InitSched /\ [][NextSched]_vars

\* ----------------------------------- the Scheduler among parts that fail
\* The same Scheduler in an environment in which a TaskStore call may throw
\* and the subscriber of 'taskExecuted' may throw, or call the Scheduler
\* back for the id it is being notified of.  `failures` counts the throws.
\* Both listeners of index.ts are registered: MessageScheduler.handleError
\* receives 'error'.
FaultTimes == {0, 2}

quietVars == <<isDevelopment, regType, registrations, nextMsg, gone, summaries,
               opens, closes, recovery, processed, closeFailed, ledgerVars,
               evaluated>>

\* handleSchedulerError(type, ...): `recentErrors.unshift(schedulerError)`
handleSchedulerError(errors, type) == errors \cup {type}

\* Scheduler.initialize when loadTasks() throws: the catch block reports an
\* INITIALIZATION error and initialize returns normally
Scheduler_initialize_LoadFails ==
  /\ ~up
  /\ failures < MaxFailures
  /\ failures' = failures + 1
  /\ up' = TRUE
  /\ restarts' = restarts + 1
  /\ recentErrors' = handleSchedulerError(recentErrors, "INITIALIZATION")
  /\ UNCHANGED <<now, tasks, timers, dbTasks, run, loop, handles, fired, issued,
                 calls, cancelled, quietVars>>

\* variant: a failing saveTask undoes the scheduling in memory
Run_saveTask_Fails_Aborts ==
  /\ up /\ run # <<>> /\ Head(run).op = "saveTask"
  /\ failures < MaxFailures
  /\ failures' = failures + 1
  /\ recentErrors' = handleSchedulerError(recentErrors, "PERSISTENCE")
  /\ tasks' = Without(tasks, Head(run).id)
  /\ timers' = timers \ {Head(run).id}
  /\ handles' = handles \ Stored(Head(run).id)
  /\ loop' = loop \ Stored(Head(run).id)
  /\ run' = Tail(run)
  /\ UNCHANGED <<up, now, restarts, dbTasks, fired, issued, calls, cancelled,
                 quietVars>>

\* Scheduler.scheduleTask when saveTask(task) throws: caught and reported
Run_saveTask_Fails ==
  /\ up /\ run # <<>> /\ Head(run).op = "saveTask"
  /\ failures < MaxFailures
  /\ failures' = failures + 1
  /\ recentErrors' = handleSchedulerError(recentErrors, "PERSISTENCE")
  /\ run' = Tail(run)
  /\ UNCHANGED <<up, now, restarts, tasks, timers, dbTasks, loop, handles, fired,
                 issued, calls, cancelled, quietVars>>

\* variant: a failing deleteTask leaves the task in the in-memory map
Run_cancelTask_DeleteFails_KeepsTask ==
  /\ up /\ run # <<>> /\ Head(run).op = "cancelTask"
  /\ Head(run).id \in timers
  /\ failures < MaxFailures
  /\ failures' = failures + 1
  /\ LET id == Head(run).id
     IN  /\ loop' = loop \ Stored(id)
         /\ handles' = handles \ Stored(id)
         /\ timers' = timers \ {id}
         /\ run' = MarkReplaced(Tail(run), id)
  /\ recentErrors' = handleSchedulerError(recentErrors, "TASK_CANCELLATION")
  /\ UNCHANGED <<up, now, restarts, tasks, dbTasks, fired, issued, calls, cancelled,
                 quietVars>>

\* Scheduler.cancelTask when deleteTask(id) throws: caught and reported
Run_cancelTask_DeleteFails ==
  /\ up /\ run # <<>> /\ Head(run).op = "cancelTask"
  /\ Head(run).id \in timers
  /\ failures < MaxFailures
  /\ failures' = failures + 1
  /\ LET id == Head(run).id
     IN  /\ loop' = loop \ Stored(id)
         /\ handles' = handles \ Stored(id)
         /\ timers' = timers \ {id}
         /\ tasks' = Without(tasks, id)
         /\ run' = MarkReplaced(Tail(run), id)
  /\ recentErrors' = handleSchedulerError(recentErrors, "TASK_CANCELLATION")
  /\ UNCHANGED <<up, now, restarts, dbTasks, fired, issued, calls, cancelled,
                 quietVars>>

\* Scheduler.executeTask, one-time task, when deleteTask(id) throws
Run_delete_DeleteFails ==
  /\ up /\ run # <<>> /\ Head(run).op = "delete"
  /\ failures < MaxFailures
  /\ failures' = failures + 1
  /\ tasks' = Without(tasks, Head(run).id)
  /\ timers' = timers \ {Head(run).id}
  /\ handles' = handles \ Stored(Head(run).id)
  /\ recentErrors' = handleSchedulerError(recentErrors, "PERSISTENCE")
  /\ run' = Tail(run)
  /\ UNCHANGED <<up, now, restarts, dbTasks, loop, fired, issued, calls, cancelled,
                 quietVars>>

\* variant: the subscriber's exception leaves executeTask and ends the call
Run_executeTask_Throws_Propagates ==
  /\ up /\ run # <<>> /\ Head(run).op = "executeTask"
  /\ Head(run).id \in TaskIds(tasks)
  /\ failures < MaxFailures
  /\ failures' = failures + 1
  /\ fired' = Bump(fired, Head(run).id)
  /\ run' = <<>>
  /\ UNCHANGED <<up, now, restarts, tasks, timers, dbTasks, loop, handles, issued,
                 calls, cancelled, recentErrors, quietVars>>

\* Scheduler.executeTask when the subscriber throws out of emit: the catch
\* block reports a TASK_EXECUTION error and emits 'error', which
\* MessageScheduler.handleError reports again; the statements after emit
\* (rescheduling, removal) are skipped
Run_executeTask_Throws ==
  /\ up /\ run # <<>> /\ Head(run).op = "executeTask"
  /\ Head(run).id \in TaskIds(tasks)
  /\ failures < MaxFailures
  /\ failures' = failures + 1
  /\ fired' = Bump(fired, Head(run).id)
  /\ recentErrors' = handleSchedulerError(
                       handleSchedulerError(recentErrors, "TASK_EXECUTION"), "UNKNOWN")
  /\ run' = MarkHit(Tail(run), Head(run).id)
  /\ UNCHANGED <<up, now, restarts, tasks, timers, dbTasks, loop, handles, issued,
                 calls, cancelled, quietVars>>

\* the statement of executeTask that follows emit('taskExecuted', task)
afterEmit(task) ==
  Stmt(IF task.type = RECURRING THEN "reschedule" ELSE "delete", task.id, task)

\* Scheduler.executeTask with a subscriber that calls cancelTask(task.id)
\* before it returns
Run_executeTask_Cancels ==
  /\ up /\ run # <<>> /\ Head(run).op = "executeTask"
  /\ Head(run).id \in TaskIds(tasks)
  /\ calls < MaxCalls
  /\ calls' = calls + 1
  /\ LET id == Head(run).id
     IN  /\ fired' = Bump(fired, id)
         /\ issued' = [issued EXCEPT ![id] = IF id \in timers THEN "none" ELSE @]
         /\ cancelled' = IF id \in timers THEN "true" ELSE "false"
         /\ run' = <<Stmt("cancelTask", id, NoTask), afterEmit(TaskOf(tasks, id))>>
                   \o MarkHit(Tail(run), id)
  /\ UNCHANGED <<up, now, restarts, tasks, timers, dbTasks, loop, handles, otherVars>>

\* Scheduler.executeTask with a subscriber that calls
\* scheduleOnce(task.id, executeAt, data) before it returns
Run_executeTask_Replaces(executeAt, data) ==
  /\ up /\ run # <<>> /\ Head(run).op = "executeTask"
  /\ Head(run).id \in TaskIds(tasks)
  /\ calls < MaxCalls
  /\ calls' = calls + 1
  /\ LET id == Head(run).id
     IN  /\ fired' = [fired EXCEPT ![id] = 0]
         /\ issued' = [issued EXCEPT ![id] = ONE_TIME]
         /\ run' = scheduleTaskRun(OnceTask(id, executeAt, data))
                   \o <<afterEmit(TaskOf(tasks, id))>> \o MarkHit(Tail(run), id)
  /\ UNCHANGED <<up, now, restarts, tasks, timers, dbTasks, loop, handles, cancelled,
                 otherVars>>

NextFault ==
  \/ Scheduler_initialize
  \/ Scheduler_initialize_LoadFails
  \/ Scheduler_stop
  \/ Tick
  \/ \E id \in SchedIds, e \in FaultTimes : Scheduler_scheduleOnce(id, e, "p")
  \/ \E id \in SchedIds, p \in Patterns : Scheduler_scheduleRecurring(id, p, "p", {})
  \/ \E id \in SchedIds : Scheduler_cancelTask(id)
  \/ \E h \in loop : TimerCallback(h)
  \/ Scheduler_checkTasks
  \/ Run_cancelTask
  \/ Run_cancelTask_DeleteFails
  \/ Run_tasksSet
  \/ Run_setTimeout
  \/ Run_saveTask
  \/ Run_saveTask_Fails
  \/ Run_executeTask
  \/ Run_executeTask_Throws
  \/ Run_executeTask_Cancels
  \/ \E e \in FaultTimes : Run_executeTask_Replaces(e, "q")
  \/ Run_reschedule
  \/ Run_delete
  \/ Run_delete_DeleteFails
  \/ Run_forEach

\* the first process starts at instant 0, on an empty table or on one task
\* left by an earlier process
InitFault ==
  /\ InitSched
  /\ now = 0
  /\ dbTasks \in {{}, {OnceTask("a", 2, "p")}}

SpecFault == InitFault /\ [][NextFault]_vars

\* ------------------------------------------------------------------ claims
Rows(m) == {r \in registrations : r.message_id = m}
ClosingOf(m) == {i \in 1..Len(closes) : closes[i].reg.message_id = m}
EndTasks(ts, identifier) ==
  {t \in ts : t.data.type = CUSTOM /\ t.data.registrationIdentifier = identifier}

\* C1: for every registration window at most one completion summary is ever
\* delivered to the gateway, whatever the interleaving of close-task fires,
\* sweeps, recovery runs and restarts.
C1_AtMostOneSummary == \A m \in DOMAIN summaries : summaries[m] <= 1

\* C2: close processing removes the window row only in the step in which
\* removeAll resolved successfully, after the summary was delivered; a step
\* of close processing in which the gateway call failed leaves the table
\* active_registrations as it was.
C2_DeleteOnlyAfterCommit ==
  [][\A i \in 1..MaxInflight + 1 : \A pc \in {"fetch", "roster", "send", "strip"} :
       \A o \in Outcomes :
         CloseStep(i, pc, o) =>
           /\ (o # "ok" => registrations' = registrations)
           /\ (registrations' # registrations =>
                 /\ pc = "strip" /\ o = "ok"
                 /\ summaries[closes[i].reg.message_id] >= 1
                 /\ registrations' =
                      removeRegistration(registrations, closes[i].reg.message_id))]_vars

\* a close processing run of a window failed after its summary was
\* delivered and the row is still there; later the row of a window was
\* removed by a run that went through
C2_Witness ==
  /\ \E m \in closeFailed : summaries[m] >= 1
  /\ \E m \in processed : Rows(m) = {} /\ summaries[m] >= 1


Armed(ts, tm) == {t \in ts : t.id \in tm}

\* C3: while the process is up, a window whose close processing failed, whose
\* row is still present and whose message still exists has a retry on its
\* way: an armed task carrying its identifier (which a timer or the sweep
\* will fire), a close processing run in flight, or a recovery step not yet
\* taken.
C3_FailedCloseIsRetried ==
  \A r \in registrations :
    (up /\ r.message_id \in closeFailed /\ r.message_id \notin gone) =>
      \/ EndTasks(Armed(tasks, timers), r.identifier_string) # {}
      \/ ClosingOf(r.message_id) # {}
      \/ \E i \in 1..Len(recovery.todo) : recovery.todo[i].message_id = r.message_id

\* C4: whenever a window row is created, a close task carrying the window's
\* identifier is pending (in the task map with an armed timer) with
\* executeAt equal to the window's endTimestamp.
C4_CloseTaskPendingAtOpen ==
  [][\A r \in registrations' \ registrations :
       \E t \in EndTasks(Armed(tasks', timers'), r.identifier_string) :
         t.executeAt = r.end_timestamp]_vars

\* C5: at no time do two window rows with the same identifier exist.
C5_UniqueIdentifier ==
  \A r, q \in registrations :
    r.identifier_string = q.identifier_string => r = q

OverdueRecovered(o) ==
  /\ RecoverFetchDone(o)
  /\ o = "ok"
  /\ Head(recovery.todo) \in registrations
  /\ Head(recovery.todo).end_timestamp <= recovery.now

NotYetDueRecovered(o) ==
  /\ RecoverFetchDone(o)
  /\ o = "ok"
  /\ Head(recovery.todo).end_timestamp > recovery.now

\* a step of the running process in which the Scheduler executes task t
Executed(t) ==
  /\ up /\ up'
  /\ t \in Armed(tasks, timers)
  /\ t \notin tasks'
  /\ \A o \in Outcomes : ~RecoverFetchDone(o)

C12_RecoveryDeletesOnlyGone ==
  [][\A o \in Outcomes :
       RecoverFetchDone(o) =>
         /\ (o = "error" => registrations' = registrations)
         /\ (registrations' # registrations => o = "notfound")]_vars

\* C13: while recovery has persisted windows left to reconcile, no other
\* component has scheduled a task on the Scheduler (the task map is what
\* Scheduler.initialize loaded, plus what recovery itself scheduled) and no
\* task notification is handled.
C13_RecoveryBeforeScheduling ==
  [][/\ (Boot /\ recovery'.todo # <<>>) => tasks' = initialize(dbTasks).tasks
     /\ (recovery.todo # <<>> /\ up') =>
          \/ \E o \in Outcomes : RecoverFetchDone(o)
          \/ /\ tasks' = tasks
             /\ Len(opens') <= Len(opens)
             /\ \A i \in 1..Len(closes') : \E j \in 1..Len(closes) :
                  closes'[i].reg = closes[j].reg]_vars

\* ------------------------------------------------------- claims: the ledger
RowsOf(rd, k) == {r \in rd : SameKey(r, k[1], k[2], k[3])}
Last(s) == s[Len(s)]
KeyOf(h) == <<h.user_id, h.message_id, h.emoji>>

\* C6: once every reaction handler has run to its end, the record of each
\* (user, window, kind) is active if the last event the gateway delivered for
\* it was an opt-in, and not active if it was an opt-out.
C6_LastDeliveredWins ==
  handlers = <<>> =>
    \A k \in Keys :
      /\ delivered.last[k] = "add" => \E r \in RowsOf(reaction_data, k) : ~r.removed
      /\ delivered.last[k] = "remove" => \A r \in RowsOf(reaction_data, k) : r.removed

\* C7: recording an opt-in for a key whose most recently recorded event is
\* the same opt-in leaves exactly one record for the key, and it is active;
\* the active participants of every window and kind are what they were
\* after the first recording.
C7_OptInTwice ==
  [][\A i \in 1..MaxInflight :
       (/\ HandlerRoleDone(i)
        /\ handlers[i].op = "add"
        /\ recorded[KeyOf(handlers[i])] # <<>>
        /\ Last(recorded[KeyOf(handlers[i])]) = "add") =>
         /\ Cardinality(RowsOf(reaction_data', KeyOf(handlers[i]))) = 1
         /\ \A r \in RowsOf(reaction_data', KeyOf(handlers[i])) : ~r.removed
         /\ \A m \in LedgerMsgs, e \in ReactionKinds :
              activeParticipants(reaction_data', m, e) =
                activeParticipants(reaction_data, m, e)]_vars

\* the two most recent events recorded for a key are opt-ins
C7_Witness ==
  \E k \in Keys :
    /\ Len(recorded[k]) >= 2
    /\ recorded[k][Len(recorded[k])] = "add"
    /\ recorded[k][Len(recorded[k]) - 1] = "add"
    /\ Cardinality(RowsOf(reaction_data, k)) = 1

\* C8: the active participants of a window and kind are exactly the users
\* whose most recently recorded event for (user, window, kind) is an opt-in.
C8_ActiveParticipants ==
  \A m \in LedgerMsgs, e \in ReactionKinds :
    activeParticipants(reaction_data, m, e) =
      {u \in Users : /\ recorded[<<u, m, e>>] # <<>>
                     /\ Last(recorded[<<u, m, e>>]) = "add"}

\* U1 opted in, U1 opted out, U2 opted in: the active set is {U2}
C8_Witness ==
  /\ recorded[<<"U1", 1, "breakfast">>] = <<"add", "remove">>
  /\ recorded[<<"U2", 1, "breakfast">>] = <<"add">>
  /\ activeParticipants(reaction_data, 1, "breakfast") = {"U2"}

\* C9: the handler of an opt-out for a key that has no record runs to its
\* end and leaves the table reaction_data, and its row counter, as they were.
C9_OptOutWithoutRecord ==
  [][\A i \in 1..MaxInflight :
       (/\ HandlerRoleDone(i)
        /\ handlers[i].op = "remove"
        /\ RowsOf(reaction_data, KeyOf(handlers[i])) = {}) =>
         /\ reaction_data' = reaction_data
         /\ nextRowId' = nextRowId
         /\ Len(handlers') = Len(handlers) - 1]_vars

\* an opt-out was recorded for a key that had, and has, no record
C9_Witness ==
  \E k \in Keys : recorded[k] = <<"remove">> /\ RowsOf(reaction_data, k) = {}

\* ------------------------------------------------------ claims: Scheduler
Quiescent == up /\ run = <<>>
StmtsOf(stmts, op) == {stmts[i].task : i \in {j \in 1..Len(stmts) : stmts[j].op = op}}

\* C14: every task that is in TaskStore when the process starts is re-armed
\* by Scheduler.initialize with its stored executeAt: initialize runs
\* scheduleTask for each stored task unchanged, each scheduleTask sets a
\* timeout that is due at the later of executeAt and the instant of the
\* call, a due timeout runs executeTask for its id, and once the call has
\* returned every stored task is in memory with a live timeout not earlier
\* than its executeAt.
C14_ReloadRearms ==
  [][ /\ Scheduler_initialize =>
           /\ StmtsOf(run', "tasks.set") = dbTasks
           /\ StmtsOf(run', "setTimeout") = dbTasks
           /\ StmtsOf(run', "saveTask") = dbTasks
      /\ Run_setTimeout =>
           LET h == [id |-> Head(run).id, due |-> Max(now, Head(run).task.executeAt)]
           IN  h \in loop' /\ h \in handles'
      /\ \A h \in loop : TimerCallback(h) =>
           h.due <= now /\ run' = <<Stmt("executeTask", h.id, NoTask)>>
      /\ Quiescent' =>
           \A t \in dbTasks' :
             /\ t \in tasks'
             /\ \E h \in loop' \cap handles' : h.id = t.id /\ h.due >= t.executeAt ]_vars

\* a task stored by an earlier process and already overdue at the start has
\* been executed by the first process of the behaviour, which was never
\* asked to schedule anything
C14_Witness ==
  /\ up /\ restarts = 1 /\ calls = 0
  /\ run # <<>> /\ Head(run).op = "delete"
  /\ Head(run).task.executeAt < now
  /\ fired[Head(run).id] = 1

InStore(id) == \E t \in tasks \cap dbTasks : t.id = id

Live(id) == \E h \in loop : h.id = id
Known(id) == id \in TaskIds(tasks) \cup TaskIds(dbTasks)

\* C16: a one-time task that was scheduled and not cancelled produces
\* exactly one 'taskExecuted' notification: never two, whether its timer,
\* the sweep or both trigger it; while it has produced none it stays stored
\* and (in a running process) in memory with a live timer; and once it has
\* fired and the call has returned it is neither in the in-memory task map
\* nor in TaskStore, and no timer is left for it.
C16_ExactlyOnce ==
  \A id \in SchedIds :
    issued[id] = ONE_TIME =>
      /\ fired[id] <= 1
      /\ (~up \/ run = <<>>) =>
           IF fired[id] = 0
           THEN /\ id \in TaskIds(dbTasks)
                /\ up => id \in TaskIds(tasks) /\ \E h \in loop \cap handles : h.id = id
           ELSE ~Known(id) /\ ~Live(id)

\* the sweep found a one-time task due with its timer still pending, cleared
\* the timer and executed the task: one notification, removal under way
C16_Witness ==
  /\ up /\ Len(run) = 2
  /\ run[1].op = "delete" /\ run[2].op = "forEach"
  /\ issued[run[1].id] = ONE_TIME
  /\ fired[run[1].id] = 1
  /\ ~Live(run[1].id)

\* C17: while the scheduler is running, a sweep fires every task whose
\* executeAt had passed when the sweep started and whose timer had not fired:
\* when tasks.forEach has visited every task, each of them has had its
\* 'taskExecuted' notification emitted by this sweep.
C17_SweepFiresOverdue ==
  (run # <<>> /\ Head(run).op = "forEach" /\ Head(run).todo = {}) =>
    /\ Head(run).overdue \subseteq Head(run).hit
    /\ \A id \in Head(run).overdue : fired[id] >= 1

\* a sweep is about to return after executing a task whose time had passed
\* and whose timeout was still pending
C17_Witness ==
  /\ up /\ Len(run) = 1
  /\ run[1].op = "forEach" /\ run[1].todo = {}
  /\ run[1].hit # {}

\* C18: a recurring task that fires is not removed.  Emitting its
\* notification leaves the task map and TaskStore as they were; the task is
\* then scheduled again under the same id, with the same payload and an
\* executeAt that is the next occurrence of its time-of-day (not before the
\* instant of the computation, less than a day after it); and when the call
\* has returned the id is in memory and in TaskStore with a live timer.
C18_RecurringStays ==
  [][ /\ (Run_executeTask /\ Head(run).id \in TaskIds(tasks)
            /\ TaskOf(tasks, Head(run).id).type = RECURRING) =>
           /\ tasks' = tasks /\ dbTasks' = dbTasks
           /\ Head(run').op = "reschedule"
           /\ Head(run').task = TaskOf(tasks, Head(run).id)
      /\ Run_reschedule =>
           LET old == Head(run).task
               new == run'[2].task
           IN  /\ SubSeq(run', 1, 4) = scheduleTaskRun(new)
               /\ new = [old EXCEPT !.executeAt = new.executeAt]
               /\ new.executeAt % DayLen = old.pattern
               /\ new.executeAt >= now
               /\ new.executeAt < now + DayLen
      /\ Quiescent' =>
           \A id \in SchedIds :
             issued'[id] = RECURRING =>
               \E t \in tasks' \cap dbTasks' :
                 /\ t.id = id /\ t.type = RECURRING
                 /\ \E h \in loop' \cap handles' : h.id = id /\ h.due >= t.executeAt ]_vars

\* a recurring task has fired and the call has returned: the id is still
\* stored and armed, now for its time-of-day on the next day
C18_Witness ==
  /\ Quiescent
  /\ \E t \in tasks \cap dbTasks :
       /\ issued[t.id] = RECURRING /\ fired[t.id] >= 1
       /\ t.executeAt > now /\ DateOnly(t.executeAt) > DateOnly(now)
       /\ [id |-> t.id, due |-> t.executeAt] \in loop \cap handles

\* C19: every executeAt given to a recurring task that was scheduled with a
\* days-of-week set, at its initial scheduling and after each fire, falls on
\* a weekday of that set.
C19_ExecuteAtOnValidDay ==
  \A t \in tasks :
    (t.type = RECURRING /\ t.days # {}) => dayOfWeek(t.executeAt) \in t.days

HandlesOf(hs, id) == {h \in hs : h.id = id}
TasksOf(ts, id) == {t \in ts : t.id = id}

\* C20: scheduling a task under an id that already has a task cancels the
\* existing one.  cancelTask leaves no live timeout for the id, at no time
\* is a timeout live that is not the one stored in Scheduler.timers (so the
\* old timer never fires), no id ever has two tasks, two live timeouts or
\* two TaskStore records, and when the last statement of the call has run
\* the id has exactly one task and one TaskStore record, both the new task
\* with its executeAt and payload, and exactly one live timeout, due no
\* earlier than the new executeAt.
C20_RescheduleReplaces ==
  [][ /\ (Run_cancelTask /\ Head(run).id \in timers) =>
           HandlesOf(loop', Head(run).id) = {}
      /\ loop' \subseteq handles'
      /\ \A id \in SchedIds :
           /\ Cardinality(HandlesOf(loop', id)) <= 1
           /\ Cardinality(TasksOf(tasks', id)) <= 1
           /\ Cardinality(TasksOf(dbTasks', id)) <= 1
      /\ Run_saveTask =>
           LET t == Head(run).task
           IN  /\ TasksOf(tasks', t.id) = {t}
               /\ TasksOf(dbTasks', t.id) = {t}
               /\ \E h \in handles' :
                    HandlesOf(loop', t.id) = {h} /\ h.due >= t.executeAt ]_vars

\* a call that schedules a one-time task found an armed task under the same
\* id, cancelled it, and is about to finish with the new task in place
C20_Witness ==
  /\ up /\ Len(run) = 1
  /\ Head(run).op = "saveTask" /\ Head(run).replaced
  /\ Head(run).task.type = ONE_TIME
  /\ TasksOf(tasks, Head(run).id) = {Head(run).task}
  /\ Cardinality(HandlesOf(loop, Head(run).id)) = 1

\* ------------------------------------- claims: the Scheduler under faults
\* the fire in flight still owns its id: the task it read before emitting
\* is the task the map holds under that id
Owns == Head(run).task \in tasks

\* C21: when the task was cancelled, or replaced under the same id, while
\* its fire was in flight, the step that completes the fire does not act:
\* the removal leaves a replacement's entries in the task map, the timers
\* and TaskStore as they are, and the rescheduling does not schedule the
\* task again.
C21_FireChecksOwnership ==
  [][ /\ (Run_delete /\ ~Owns /\ Head(run).id \in TaskIds(tasks)) =>
           UNCHANGED <<tasks, timers, handles, loop, dbTasks>>
      /\ (Run_reschedule /\ ~Owns) => run' = Tail(run) ]_vars

\* a call of cancelTask made by the client is executing its body
ClientCancel == Run_cancelTask /\ Len(run) = 1

\* C22: when cancelTask(id) has run for a task that exists in memory or in
\* TaskStore, the id has no live timer and no record in TaskStore (so it
\* cannot be reloaded by a later initialize) and no entry in the task map.
C22_CancelRemovesEverywhere ==
  [][ (ClientCancel /\ Known(Head(run).id)) =>
        /\ Head(run).id \notin TaskIds(dbTasks')
        /\ Head(run).id \notin TaskIds(tasks')
        /\ HandlesOf(loop', Head(run).id) = {} ]_vars

\* C23: cancelTask on an id that has no task returns false ('not found')
\* and raises nothing: no task, timer, TaskStore record or error report
\* changes and the call is over.  More generally a call that finds no entry
\* in timers changes nothing, and after every call the id has no entry in
\* timers, so cancelling the same id a second time changes nothing.
C23_CancelUnknownIsNoOp ==
  [][ /\ (ClientCancel /\ ~Known(Head(run).id)) =>
           /\ cancelled = "false"
           /\ Head(run).id \notin timers
      /\ (ClientCancel /\ Head(run).id \notin timers) =>
           /\ cancelled = "false"
           /\ run' = <<>>
           /\ UNCHANGED <<tasks, timers, handles, loop, dbTasks, recentErrors,
                          failures, fired, issued>>
      /\ ClientCancel => Head(run).id \notin timers' ]_vars

\* the client is cancelling an id that has no task anywhere
C23_Witness ==
  /\ up /\ Len(run) = 1 /\ Head(run).op = "cancelTask"
  /\ ~Known(Head(run).id)
  /\ cancelled = "false"
  /\ Known("a") \/ Known("b")

\* C24: when deleteTask throws inside cancelTask the cancellation is still
\* carried out in memory: the timeout that timers held for the id is no
\* longer live, the id has no entry in timers and no task in the map, the
\* error is reported as TASK_CANCELLATION, and the
\* call goes on with the statements that follow (nothing is raised to the
\* caller); TaskStore is left as it was.
C24_CancelSurvivesDeleteFailure ==
  [][ Run_cancelTask_DeleteFails =>
        /\ Stored(Head(run).id) \cap loop' = {}
        /\ Head(run).id \notin timers'
        /\ Head(run).id \notin TaskIds(tasks')
        /\ "TASK_CANCELLATION" \in recentErrors'
        /\ Len(run') = Len(run) - 1
        /\ \A i \in 1..Len(run') : run'[i].op = run[i + 1].op /\ run'[i].task = run[i + 1].task
        /\ dbTasks' = dbTasks ]_vars

\* a cancelTask call of the client whose deleteTask threw has returned: the
\* task is gone from memory, disarmed, and still in TaskStore
C24_Witness ==
  /\ Quiescent
  /\ "TASK_CANCELLATION" \in recentErrors
  /\ cancelled = "true"
  /\ \E t \in dbTasks :
       /\ issued[t.id] = "none"
       /\ t.id \notin TaskIds(tasks) /\ t.id \notin timers
       /\ HandlesOf(loop, t.id) = {}
       /\ t.executeAt <= now

\* C25: when saveTask throws inside scheduleTask the schedule call does not
\* fail: the error is reported as PERSISTENCE and the call goes on; the task
\* stays in the map, its timeout stays live and stored in timers, due no
\* earlier than executeAt and no later than the later of executeAt and now;
\* TaskStore is left as it was.
C25_ScheduleSurvivesSaveFailure ==
  [][ Run_saveTask_Fails =>
        LET t == Head(run).task
        IN  /\ t \in tasks'
            /\ t.id \in timers'
            /\ \E h \in loop' \cap handles' :
                 h.id = t.id /\ h.due >= t.executeAt /\ h.due <= Max(now, t.executeAt)
            /\ "PERSISTENCE" \in recentErrors'
            /\ run' = Tail(run)
            /\ dbTasks' = dbTasks ]_vars

\* a one-time task whose saveTask threw has fired from memory: its
\* notification was emitted and its removal is under way, and TaskStore
\* never held it
C25_Witness ==
  /\ up /\ run # <<>> /\ Head(run).op = "delete"
  /\ failures = 1 /\ calls = 1 /\ restarts = 1
  /\ "PERSISTENCE" \in recentErrors
  /\ fired[Head(run).id] = 1
  /\ Head(run).task \in tasks
  /\ Head(run).id \notin TaskIds(dbTasks)
  /\ Head(run).task.executeAt = now

\* C26: when the subscriber throws while a task is fired, executeTask
\* catches the exception and reports it as TASK_EXECUTION; nothing leaves
\* the scheduler: it keeps running, the call it is part of (a sweep over
\* the other tasks) goes on, and no task, timer or TaskStore record of any
\* id is touched, so the other tasks keep their armed timers.
C26_SubscriberThrowContained ==
  [][ Run_executeTask_Throws =>
        /\ up'
        /\ "TASK_EXECUTION" \in recentErrors'
        /\ Len(run') = Len(run) - 1
        /\ \A i \in 1..Len(run') : run'[i].op = run[i + 1].op /\ run'[i].todo = run[i + 1].todo
        /\ UNCHANGED <<tasks, timers, handles, loop, dbTasks>> ]_vars

\* in one sweep the subscriber threw for one task and the sweep went on to
\* execute another: that one's notification was emitted and it is being
\* completed
C26_Witness ==
  /\ up /\ Len(run) = 2
  /\ run[1].op \in {"delete", "reschedule"} /\ run[2].op = "forEach"
  /\ "TASK_EXECUTION" \in recentErrors
  /\ fired[run[1].id] = 1
  /\ \E id \in run[2].hit : id # run[1].id /\ id \in TaskIds(tasks) /\ id \notin timers

\* C27: when the subscriber throws while a recurring task is fired, the
\* task is still rescheduled: the rescheduling statement of executeTask
\* follows the failed emit.
C27_FailedRecurringRescheduled ==
  [][ (Run_executeTask_Throws /\ TaskOf(tasks, Head(run).id).type = RECURRING) =>
        /\ run' # <<>>
        /\ Head(run').op = "reschedule"
        /\ Head(run').id = Head(run).id ]_vars

\* C28: when loadTasks throws during Scheduler.initialize the failure
\* aborts the start: the scheduler is not running afterwards.
C28_LoadFailureAbortsBoot ==
  [][ Scheduler_initialize_LoadFails => ~up' ]_vars

\* ------------------------------------------------- claims: time arithmetic
\* C30: every registration window ends after it starts: the endTimestamp
\* carried by a recurring task that opens a window is later than the instant
\* at which the task opens it (for an end time of day before the start time
\* of day, on the day following the start).
C30_EndAfterStart ==
  \A t \in tasks :
    (t.type = RECURRING /\ t.data.type \in RegTypes) => t.data.endTime > t.executeAt

\* ------------------------------------------- timeUtils called over two days
\* A client calls getNextOccurrence with every configured time of day at
\* every instant of two consecutive days.
MaxClock == 7
TimeStrings == 0..(DayLen - 1)

\* getCurrentTime() moves on
Clock ==
  /\ now < MaxClock
  /\ now' = now + 1
  /\ UNCHANGED <<up, isDevelopment, regType, restarts, failures, tasks, timers,
                 dbTasks, registrations, nextMsg, gone, summaries, opens, closes,
                 recovery, processed, closeFailed, ledgerVars, run, loop, handles,
                 fired, issued, calls, cancelled, recentErrors, evaluated>>

\* timeUtils.getNextOccurrence(timeString), with no reference date
Call_getNextOccurrence(timeString) ==
  /\ evaluated' = [fn |-> "getNextOccurrence", timeString |-> timeString,
                   at |-> now, value |-> getNextOccurrence(timeString, now)]
  /\ UNCHANGED <<lifecycleVars, ledgerVars, run, loop, handles, fired, issued,
                 calls, cancelled, recentErrors>>

InitTime ==
  /\ Init
  /\ isDevelopment = FALSE
  /\ regType = MEAL
  /\ now = 0

NextTime ==
  \/ Clock
  \/ \E timeString \in TimeStrings : Call_getNextOccurrence(timeString)

SpecTime == InitTime /\ [][NextTime]_vars

\* the time of day of an instant
TimeOfDay(t) == t % DayLen

\* C29: getNextOccurrence(T) called at instant now returns today's T when
\* now is earlier in the day than T and tomorrow's T when now is later than
\* T; the result is never before now and never more than a day after now.
C29_NextOccurrence ==
  evaluated.fn = "getNextOccurrence" =>
    LET T == evaluated.timeString
        at == evaluated.at
        value == evaluated.value
    IN  /\ TimeOfDay(at) < T => (DateOnly(value) = DateOnly(at) /\ TimeOfDay(value) = T)
        /\ TimeOfDay(at) > T => (DateOnly(value) = DateOnly(at) + 1 /\ TimeOfDay(value) = T)
        /\ value >= at
        /\ value <= at + DayLen

\* a call made after T has passed today, answered with tomorrow's T
C29_Witness ==
  /\ evaluated.fn = "getNextOccurrence"
  /\ TimeOfDay(evaluated.at) > evaluated.timeString
  /\ DateOnly(evaluated.value) = DateOnly(evaluated.at) + 1

\* ------------------------------------------- claims: closing a window
\* the close processing run i returns from its last await, which succeeded
Completes(i) == CloseStripDone(i, "ok")

\* C31: when the close processing of a window runs to its end with every
\* gateway call successful, no row with the window's identifier remains in
\* active_registrations, whatever the registration type.
C31_NoRowWithIdentifierLeft ==
  [][ \A i \in 1..(MaxInflight + 1) :
        Completes(i) =>
          \A r \in registrations' :
            r.identifier_string # closes[i].reg.identifier_string ]_vars

\* ----------------------------------- one window, its reactions and its close
\* Production mode, late morning registration.  The window of message 1 was
\* opened on day 0 with end 11:00; the process then restarted at 11:00:
\* recovery armed the window's close task, which is due, and
\* MealRegistrationService.initialize scheduled the recurring open task for
\* the next day.  Users and bots react to message 1 and to message 2, which
\* is not a registration message, while the close task fires and close
\* processing runs.
LateWindow ==
  [message_id |-> 1, registration_type |-> LATE_MORNING,
   end_timestamp |-> parseTimeString(EndTime(LATE_MORNING), 0),
   identifier_string |-> Identifier(LATE_MORNING, 0)]

\* the instant of the restart
WindowBoot == LateWindow.end_timestamp

WindowSched ==
  recoverRegistration(
    scheduleRegistration([tasks |-> {}, timers |-> {}, db |-> {}],
                         FALSE, LATE_MORNING, WindowBoot),
    {LateWindow}, LateWindow, WindowBoot, "ok", WindowBoot).st

\* the reactions placed in this scenario
WindowUsers == {"U1"}
WindowEmojis == {"late", "dinner"}

\* handleReactionAdd / handleReactionRemove for an event of a bot:
\* `if (user.bot) return`
Deliver_Bot(op, userId, messageId, emoji) ==
  /\ up
  /\ delivered.count < MaxEvents
  /\ delivered' = [count |-> delivered.count + 1,
                   last |-> [delivered.last EXCEPT ![<<userId, messageId, emoji>>] = op]]
  /\ UNCHANGED <<lifecycleVars, schedVars, reaction_data, nextRowId, handlers,
                 recorded>>

InitWindow ==
  /\ up = TRUE
  /\ isDevelopment = FALSE
  /\ regType = LATE_MORNING
  /\ now = WindowBoot
  /\ restarts = 2
  /\ failures = 0
  /\ tasks = WindowSched.tasks
  /\ timers = WindowSched.timers
  /\ dbTasks = WindowSched.db
  /\ registrations = {LateWindow}
  /\ nextMsg = 2
  /\ gone = {}
  /\ summaries = [m \in 1..(MaxMsgs + 1) |-> 0]
  /\ opens = <<>>
  /\ closes = <<>>
  /\ recovery = Idle
  /\ processed = {}
  /\ closeFailed = {}
  /\ reaction_data = {}
  /\ nextRowId = 1
  /\ handlers = <<>>
  /\ delivered = [count |-> 0, last |-> [k \in Keys |-> "none"]]
  /\ recorded = [k \in Keys |-> <<>>]
  /\ SchedIdle

NextWindow ==
  \/ \E op \in {"add", "remove"}, u \in WindowUsers, m \in EventMsgs,
        e \in WindowEmojis, partial \in BOOLEAN : Deliver(op, u, m, e, partial)
  \/ \E op \in {"add", "remove"}, u \in Bots, m \in EventMsgs, e \in WindowEmojis :
        Deliver_Bot(op, u, m, e)
  \/ \E i \in 1..MaxInflight : HandlerFetched(i)
  \/ \E i \in 1..MaxInflight : HandlerRoleDone(i)
  \/ Tick
  \/ \E id \in timers : TimerFire(id)
  \/ CheckTasks
  \/ \E i \in 1..MaxInflight + 1, o \in Outcomes : CloseFetchDone(i, o)
  \/ \E i \in 1..MaxInflight + 1, o \in Outcomes : CloseRosterDone(i, o)
  \/ \E i \in 1..MaxInflight + 1, o \in Outcomes : CloseSendDone(i, o)
  \/ \E i \in 1..MaxInflight + 1, o \in Outcomes : CloseStripDone(i, o)

SpecWindow == InitWindow /\ [][NextWindow]_vars

\* the state SpecWindow starts in, as a state of the whole program
WindowReached ==
  /\ up /\ ~isDevelopment /\ regType = LATE_MORNING /\ now = WindowBoot
  /\ tasks = WindowSched.tasks /\ timers = WindowSched.timers
  /\ dbTasks = WindowSched.db
  /\ registrations = {LateWindow} /\ nextMsg = 2 /\ gone = {}
  /\ opens = <<>> /\ closes = <<>> /\ recovery = Idle /\ failures = 0

\* ------------------------------------- claims: reactions around the close
\* C32: the summary a close processing run delivers names the window's
\* active reactions as they are in the ledger at the moment the summary is
\* delivered, also when reactions were recorded while the run was suspended
\* on a gateway call.
C32_SummaryIsCurrent ==
  [][ \A i \in 1..(MaxInflight + 1) :
        CloseSendDone(i, "ok") =>
          closes[i].reactions =
            getActiveByMessageId(reaction_data, closes[i].reg.message_id) ]_vars

\* the window row of a message, if it has one
RowOf(messageId) == {r \in registrations : r.message_id = messageId}

\* C33: a reaction event handled at or after the end of its window does
\* not change the ledger, even while the window's row still exists.
C33_NoWriteAfterEnd ==
  [][ \A i \in 1..MaxInflight :
        (/\ HandlerRoleDone(i)
         /\ \E r \in RowOf(handlers[i].message_id) : now >= r.end_timestamp) =>
          reaction_data' = reaction_data ]_vars

C34_SchedulingKeepsOtherTasks ==
  [][ (\E o \in Outcomes : RecoverFetchDone(o)) =>
        \A t \in Armed(tasks, timers) : t \in tasks' ]_vars

\* C35: for every window at most one close task carrying its identifier is
\* pending (in the task map with an armed timer), also after a restart in
\* which the persisted tasks are reloaded and recovery re-arms the close
\* tasks of the persisted windows.
C35_OneCloseTaskPerWindow ==
  \A r \in registrations :
    Cardinality(EndTasks(Armed(tasks, timers), r.identifier_string)) <= 1

\* C36: a close task fires only when its window exists: at the instant the
\* timer of a close task runs, active_registrations holds a row with the
\* identifier the task carries.
C36_CloseFiresOnExistingWindow ==
  [][ \A t \in Armed(tasks, timers) :
        (t.data.type = CUSTOM /\ TimerFire(t.id)) =>
          \E r \in registrations :
            r.identifier_string = t.data.registrationIdentifier ]_vars

\* C37: when a recurring task has fired, the executeAt computed for its next
\* run is strictly later than the instant of the computation, so that the
\* task does not fire again for the same occurrence of its time of day.
C37_NextStrictlyLater ==
  [][ Run_reschedule => run'[2].task.executeAt > now ]_vars

\* ------------------------------------------- claims: the three task sets
\* ids whose timeout, stored in timers, is still to run
ArmedIds == {h.id : h \in loop \cap handles}

\* C38: while the scheduler is running and no call is in progress, the ids
\* with an armed timer, the ids in the task map and the ids in TaskStore are
\* the same set, and the map and the store hold the same tasks.
C38_ThreeSetsAgree ==
  Quiescent =>
    /\ timers = TaskIds(tasks)
    /\ ArmedIds = timers
    /\ TaskIds(dbTasks) = TaskIds(tasks)
    /\ dbTasks = tasks

\* a recurring task has fired and was scheduled again, the client has made
\* two calls, the last cancelTask found and cancelled its task, and no call
\* is in progress
C38_Witness ==
  /\ Quiescent
  /\ cancelled = "true"
  /\ \E t \in tasks : t.type = RECURRING /\ fired[t.id] >= 1
  /\ calls >= 2

====
